---- MODULE Spec2Model ----
(***************************************************************************)
(* MultiLevelCache of docs/fastapi/examples/high-performance-patterns.py:  *)
(* a hot tier (l1) and a warm tier (l2) of entries with a time to live,    *)
(* least-recently-used demotion from l1 to l2, promotion on an l2 hit and  *)
(* invalidation by key list or by substring pattern.                       *)
(*                                                                         *)
(* Python values are represented as follows.                               *)
(*   str            a sequence of one-character strings, <<"a", "b">>      *)
(*   Optional[x]    the empty set for None, the singleton {x} otherwise    *)
(*   dict (cache)   a function on the set of its keys                      *)
(*   dict (times)   a sequence of <<key, time>> pairs in insertion order,  *)
(*                  the order sorted() falls back to on equal times        *)
(*   time.time()    the variable now; the clock may advance by one unit    *)
(*                  between two readings made by the same operation        *)
(***************************************************************************)
EXTENDS Integers, Sequences, FiniteSets, TLC

VARIABLES
    l1_size,            \* self.l1_size
    l2_size,            \* self.l2_size
    default_ttl,        \* self.default_ttl
    l1_cache,           \* self.l1_cache
    l1_access_times,    \* self.l1_access_times
    l2_cache,           \* self.l2_cache
    l2_access_times,    \* self.l2_access_times
    stats,              \* self.stats
    now,                \* the wall clock read by time.time()
    ret,                \* the last completed call: its arguments and what it returned
    filled,             \* how many calls of the initial fill have been made
    last_set,           \* history: per key, the value and expiry of the latest set
    invalidated,        \* history: keys named by an exact invalidate and not set since
    evicted,            \* history: how many entries eviction has removed from each
                        \* tier, and what the eviction of l1 did in the last call
    suspended           \* a get that is waiting at its await, and the serial outcomes

vars == <<l1_size, l2_size, default_ttl, l1_cache, l1_access_times,
          l2_cache, l2_access_times, stats, now, ret, filled, last_set, invalidated,
          evicted, suspended>>

-----------------------------------------------------------------------------
(* Bounds of the model. *)

MaxFill == 8         \* calls of the initial fill: set of FillKeys in turn
MaxOps == 2          \* arbitrary calls after the fill (bounds the statistics counters)
MaxTime == 2         \* largest clock value
MaxCalm == 4         \* clock readings of one call that may precede the clock's advance
MaxStatCalls == 5    \* calls of get and get_stats after the fill, where statistics are read
MaxLruOps == 3       \* calls after l1 has been filled to its capacity, key by key

FillKeys == << <<"a">>, <<"a", "b">>, <<"b">>, <<"b", "a">>, <<"c">> >>
Keys == {FillKeys[i] : i \in 1..Len(FillKeys)}
Values == {"v1", "v2"}

\* the keys k1, k2, ... stored one after the other to fill l1 up to 7 entries
LruKeys == FillKeys \o << <<"c", "a">>, <<"d">>, <<"e">> >>

None == {}
Some(x) == {x}
The(o) == CHOOSE x \in o : TRUE

-----------------------------------------------------------------------------
(* Python built-ins used by the cache. *)

\* seq[:n], also for a negative n
SlicePrefix(seq, n) ==
    IF n >= 0
    THEN SubSeq(seq, 1, IF n < Len(seq) THEN n ELSE Len(seq))
    ELSE SubSeq(seq, 1, IF Len(seq) + n > 0 THEN Len(seq) + n ELSE 0)

\* pattern in key, for two strings
Contains(key, pattern) ==
    \E i \in 0..(Len(key) - Len(pattern)) :
        SubSeq(key, i + 1, i + Len(pattern)) = pattern

\* d.pop(key, None) / del d[key] on a cache dict
DictDel(d, key) == [k \in (DOMAIN d) \ {key} |-> d[k]]

\* d[key] = entry on a cache dict
DictPut(d, key, entry) ==
    [k \in (DOMAIN d) \cup {key} |-> IF k = key THEN entry ELSE d[k]]

\* the keys of an access-time dict
TimeKeys(times) == {times[i][1] : i \in 1..Len(times)}

\* d.pop(key, None) on an access-time dict
TimesPop(times, key) == SelectSeq(times, LAMBDA p : p[1] # key)

\* d[key] = t on an access-time dict: a present key keeps its position
TimesPut(times, key, t) ==
    IF key \in TimeKeys(times)
    THEN [i \in 1..Len(times) |-> IF times[i][1] = key THEN <<key, t>> ELSE times[i]]
    ELSE Append(times, <<key, t>>)

\* A faulty variant of SortedByTime: the items are left in the order of the
\* dictionary, the order of insertion.
SortedByInsertion(items) == items

\* sorted(times.items(), key=lambda x: x[1]): stable, ascending by time
RECURSIVE SortedByTime(_)
SortedByTime(items) ==
    IF items = <<>> THEN <<>>
    ELSE LET n == Len(items)
             rest == SortedByTime(SubSeq(items, 1, n - 1))
             x == items[n]
             below == Cardinality({i \in 1..Len(rest) : rest[i][2] <= x[2]})
         IN SubSeq(rest, 1, below) \o <<x>> \o SubSeq(rest, below + 1, Len(rest))

-----------------------------------------------------------------------------
(* The object and the clock, threaded through the methods as one record.   *)
(* reads counts the readings of time.time() made so far by the running     *)
(* call; the first calm readings return now, the later ones now + 1.       *)

\* time.time()
Time(self) == IF self.reads < self.calm THEN self.now ELSE self.now + 1

\* the object after a reading of the clock
Read(self) == [self EXCEPT !.reads = @ + 1]

\* the clock once the call has returned
ClockAfter(self) == IF self.reads > self.calm THEN self.now + 1 ELSE self.now

Self(calm) ==
    [l1_size |-> l1_size, l2_size |-> l2_size, default_ttl |-> default_ttl,
     l1_cache |-> l1_cache, l1_access_times |-> l1_access_times,
     l2_cache |-> l2_cache, l2_access_times |-> l2_access_times,
     stats |-> stats, now |-> now, calm |-> calm, reads |-> 0,
     evicted |-> [evicted EXCEPT !.l1_seen = None, !.l1_batch = <<>>]]

-----------------------------------------------------------------------------
(* MultiLevelCache: eviction and promotion. *)

\* A faulty variant of Unexpired: an entry is still served at its expiry time.
UnexpiredAtExpiry(current_time, entry) == current_time <= entry.expires_at

\* current_time < entry["expires_at"], the test get makes in either tier
Unexpired(current_time, entry) == current_time < entry.expires_at

\* the loop of _ensure_l2_space over the batch it discards
RECURSIVE L2EvictLoop(_, _)
L2EvictLoop(self, batch) ==
    IF batch = <<>> THEN self
    ELSE LET key == Head(batch)[1]
         IN L2EvictLoop(
                [self EXCEPT !.l2_cache = DictDel(@, key),
                             !.l2_access_times = TimesPop(@, key),
                             !.stats.evictions = @ + 1,
                             !.evicted.l2 =
                                 IF key \in DOMAIN self.l2_cache THEN @ + 1 ELSE @],
                Tail(batch))

\* A faulty variant of _ensure_l2_space: the most recently used entries are
\* discarded.
_ensure_l2_space_newest(self) ==
    IF Cardinality(DOMAIN self.l2_cache) >= self.l2_size
    THEN LET evict_count == self.l2_size \div 4
             sorted_items == SortedByTime(self.l2_access_times)
             n == Len(sorted_items)
             newest_first == [i \in 1..n |-> sorted_items[n + 1 - i]]
         IN L2EvictLoop(self, SlicePrefix(newest_first, evict_count))
    ELSE self

_ensure_l2_space(self) ==
    IF Cardinality(DOMAIN self.l2_cache) >= self.l2_size
    THEN LET evict_count == self.l2_size \div 4
             sorted_items == SortedByTime(self.l2_access_times)
         IN L2EvictLoop(self, SlicePrefix(sorted_items, evict_count))
    ELSE self

\* A faulty variant of DemoteEntry: the entry is moved to l2 whether or not
\* it has expired.
DemoteEntryUntested(self, key, entry) ==
    LET s1 == Read(self)
        s2 == _ensure_l2_space(s1)
        s3 == [s2 EXCEPT !.l2_cache = DictPut(@, key, entry),
                         !.l2_access_times = TimesPut(@, key, Time(s2))]
        s4 == Read(s3)
    IN [s4 EXCEPT !.evicted.l1_batch =
           Append(@, [key |-> key, entry |-> entry, checked_at |-> Time(self),
                      moved |-> TRUE, l2_seen |-> s1.l2_access_times,
                      l2_removed |-> (DOMAIN s1.l2_cache) \ (DOMAIN s2.l2_cache)])]

\* what _evict_l1_to_l2 does with one entry it has taken out of l1; the
\* history notes the time of the test, whether the entry was moved to l2, and
\* what l2 held before and after room was made for it
\* A faulty variant of DemoteEntry: the entry moved to l2 is stamped anew.
DemoteEntryRestamped(self, key, entry) ==
    LET valid == Time(self) < entry.expires_at
        s1 == Read(self)
        note == [key |-> key, entry |-> entry, checked_at |-> Time(self),
                 moved |-> FALSE, l2_seen |-> s1.l2_access_times, l2_removed |-> {}]
    IN IF valid
       THEN LET s2 == _ensure_l2_space(s1)
                s3 == [s2 EXCEPT !.l2_cache = DictPut(@, key,
                                     [entry EXCEPT !.created_at = Time(s2)]),
                                 !.l2_access_times = TimesPut(@, key, Time(s2))]
                s4 == Read(s3)
            IN [s4 EXCEPT !.evicted.l1_batch = Append(@, [note EXCEPT !.moved = TRUE,
                            !.l2_removed = (DOMAIN s1.l2_cache) \ (DOMAIN s2.l2_cache)])]
       ELSE [s1 EXCEPT !.evicted.l1_batch = Append(@, note)]

DemoteEntry(self, key, entry) ==
    LET valid == Time(self) < entry.expires_at
        s1 == Read(self)
        note == [key |-> key, entry |-> entry, checked_at |-> Time(self),
                 moved |-> FALSE, l2_seen |-> s1.l2_access_times,
                 l2_removed |-> {}]
    IN IF valid
       THEN LET s2 == _ensure_l2_space(s1)
                s3 == [s2 EXCEPT !.l2_cache = DictPut(@, key, entry),
                                 !.l2_access_times = TimesPut(@, key, Time(s2))]
                s4 == Read(s3)
            IN [s4 EXCEPT !.evicted.l1_batch =
                   Append(@, [note EXCEPT
                                !.moved = TRUE,
                                !.l2_removed = (DOMAIN s1.l2_cache)
                                                   \ (DOMAIN s2.l2_cache)])]
       ELSE [s1 EXCEPT !.evicted.l1_batch = Append(@, note)]

\* A faulty variant of L1EvictLoop: an eviction is counted only when the
\* entry is moved to l2, not when it is dropped as expired.
RECURSIVE L1EvictLoopCountingMoves(_, _)
L1EvictLoopCountingMoves(self, batch) ==
    IF batch = <<>> THEN self
    ELSE LET key == Head(batch)[1]
         IN IF key \in DOMAIN self.l1_cache
            THEN LET entry == self.l1_cache[key]
                     valid == Time(self) < entry.expires_at
                     s1 == [self EXCEPT !.l1_cache = DictDel(@, key),
                                        !.l1_access_times = TimesPop(@, key),
                                        !.evicted.l1 = @ + 1]
                     s2 == DemoteEntry(s1, key, entry)
                     s3 == IF valid
                           THEN [s2 EXCEPT !.stats.evictions = @ + 1]
                           ELSE s2
                 IN L1EvictLoopCountingMoves(s3, Tail(batch))
            ELSE L1EvictLoopCountingMoves(self, Tail(batch))

\* the loop of _evict_l1_to_l2 over the batch it evicts
RECURSIVE L1EvictLoop(_, _)
L1EvictLoop(self, batch) ==
    IF batch = <<>> THEN self
    ELSE LET key == Head(batch)[1]
         IN IF key \in DOMAIN self.l1_cache
            THEN LET entry == self.l1_cache[key]
                     s1 == [self EXCEPT !.l1_cache = DictDel(@, key),
                                        !.l1_access_times = TimesPop(@, key),
                                        !.evicted.l1 = @ + 1]
                     s2 == DemoteEntry(s1, key, entry)
                     s3 == [s2 EXCEPT !.stats.evictions = @ + 1]
                 IN L1EvictLoop(s3, Tail(batch))
            ELSE L1EvictLoop(self, Tail(batch))

\* evict_count or self.l1_size // 4, called without an evict_count
L1EvictCount(self) == self.l1_size \div 4

_evict_l1_to_l2(self) ==
    LET evict_count == L1EvictCount(self)
        sorted_items == SortedByTime(self.l1_access_times)
        s1 == [self EXCEPT !.evicted.l1_seen = Some(self.l1_access_times)]
    IN L1EvictLoop(s1, SlicePrefix(sorted_items, evict_count))

_ensure_l1_space(self) ==
    IF Cardinality(DOMAIN self.l1_cache) >= self.l1_size
    THEN _evict_l1_to_l2(self)
    ELSE self

\* A faulty variant of _promote_to_l1: promotion restarts the entry's TTL.
_promote_to_l1_refreshing(self, key, entry) ==
    LET s1 == _ensure_l1_space(self)
        s2 == [s1 EXCEPT !.l1_cache = DictPut(@, key,
                             [entry EXCEPT !.expires_at = Time(s1) + s1.default_ttl]),
                         !.l1_access_times = TimesPut(@, key, Time(s1))]
        s3 == Read(s2)
    IN [s3 EXCEPT !.l2_cache = DictDel(@, key),
                  !.l2_access_times = TimesPop(@, key)]

\* A faulty variant of _promote_to_l1: the time of last access in l2 is left behind.
_promote_to_l1_keeping_time(self, key, entry) ==
    LET s1 == _ensure_l1_space(self)
        s2 == [s1 EXCEPT !.l1_cache = DictPut(@, key, entry),
                         !.l1_access_times = TimesPut(@, key, Time(s1))]
        s3 == Read(s2)
    IN [s3 EXCEPT !.l2_cache = DictDel(@, key)]

_promote_to_l1(self, key, entry) ==
    LET s1 == _ensure_l1_space(self)
        s2 == [s1 EXCEPT !.l1_cache = DictPut(@, key, entry),
                         !.l1_access_times = TimesPut(@, key, Time(s1))]
        s3 == Read(s2)
    IN [s3 EXCEPT !.l2_cache = DictDel(@, key),
                  !.l2_access_times = TimesPop(@, key)]

-----------------------------------------------------------------------------
(* MultiLevelCache: get, set, invalidate.  Each yields the object after    *)
(* the call and what the call returns.                                     *)

\* A faulty variant of GetL2: a hit in l2 is also counted as a miss of l1.
GetL2CountingL1Miss(self, key, current_time) ==
    IF key \in DOMAIN self.l2_cache
    THEN LET entry == self.l2_cache[key]
         IN IF Unexpired(current_time, entry)
            THEN LET s1 == _promote_to_l1(self, key, entry)
                 IN [self |-> [s1 EXCEPT !.stats.l2_hits = @ + 1,
                                         !.stats.l1_misses = @ + 1],
                     result |-> Some(entry.value)]
            ELSE LET s1 == [self EXCEPT !.l2_cache = DictDel(@, key),
                                        !.l2_access_times = TimesPop(@, key)]
                 IN [self |-> [s1 EXCEPT !.stats.l1_misses = @ + 1,
                                         !.stats.l2_misses = @ + 1],
                     result |-> None]
    ELSE [self |-> [self EXCEPT !.stats.l1_misses = @ + 1,
                                !.stats.l2_misses = @ + 1],
          result |-> None]

\* the second half of get: the lookup in l2 and the miss
GetL2(self, key, current_time) ==
    IF key \in DOMAIN self.l2_cache
    THEN LET entry == self.l2_cache[key]
         IN IF Unexpired(current_time, entry)
            THEN LET s1 == _promote_to_l1(self, key, entry)
                 IN [self |-> [s1 EXCEPT !.stats.l2_hits = @ + 1],
                     result |-> Some(entry.value)]
            ELSE LET s1 == [self EXCEPT !.l2_cache = DictDel(@, key),
                                        !.l2_access_times = TimesPop(@, key)]
                 IN [self |-> [s1 EXCEPT !.stats.l1_misses = @ + 1,
                                         !.stats.l2_misses = @ + 1],
                     result |-> None]
    ELSE [self |-> [self EXCEPT !.stats.l1_misses = @ + 1,
                                !.stats.l2_misses = @ + 1],
          result |-> None]

\* A faulty variant of get: an expired entry of l1 is passed over, not removed.
get_keeping_expired(self, key) ==
    LET current_time == Time(self)
        s1 == Read(self)
    IN IF key \in DOMAIN s1.l1_cache /\ Unexpired(current_time, s1.l1_cache[key])
       THEN [self |-> [s1 EXCEPT
                         !.l1_access_times = TimesPut(@, key, current_time),
                         !.stats.l1_hits = @ + 1],
             result |-> Some(s1.l1_cache[key].value)]
       ELSE GetL2(s1, key, current_time)

\* A faulty variant of get: an expired entry found in l1 is counted as a miss
\* of l1 at once, before l2 is looked at.
get_counting_expired(self, key) ==
    LET current_time == Time(self)
        s1 == Read(self)
    IN IF key \in DOMAIN s1.l1_cache
       THEN LET entry == s1.l1_cache[key]
            IN IF Unexpired(current_time, entry)
               THEN [self |-> [s1 EXCEPT
                                 !.l1_access_times = TimesPut(@, key, current_time),
                                 !.stats.l1_hits = @ + 1],
                     result |-> Some(entry.value)]
               ELSE GetL2([s1 EXCEPT !.l1_cache = DictDel(@, key),
                                     !.l1_access_times = TimesPop(@, key),
                                     !.stats.l1_misses = @ + 1],
                          key, current_time)
       ELSE GetL2(s1, key, current_time)

\* A faulty variant of get: a hit in l1 is counted in the entry as well.
get_counting_accesses(self, key) ==
    LET current_time == Time(self)
        s1 == Read(self)
    IN IF key \in DOMAIN s1.l1_cache
       THEN LET entry == s1.l1_cache[key]
            IN IF Unexpired(current_time, entry)
               THEN [self |-> [s1 EXCEPT
                                 !.l1_cache[key].access_count = @ + 1,
                                 !.l1_access_times = TimesPut(@, key, current_time),
                                 !.stats.l1_hits = @ + 1],
                     result |-> Some(entry.value)]
               ELSE GetL2([s1 EXCEPT !.l1_cache = DictDel(@, key),
                                     !.l1_access_times = TimesPop(@, key)],
                          key, current_time)
       ELSE GetL2(s1, key, current_time)

\* A faulty variant of get: a hit in l1 leaves the time of last access as it was.
get_without_refresh(self, key) ==
    LET current_time == Time(self)
        s1 == Read(self)
    IN IF key \in DOMAIN s1.l1_cache
       THEN LET entry == s1.l1_cache[key]
            IN IF Unexpired(current_time, entry)
               THEN [self |-> [s1 EXCEPT !.stats.l1_hits = @ + 1],
                     result |-> Some(entry.value)]
               ELSE GetL2([s1 EXCEPT !.l1_cache = DictDel(@, key),
                                     !.l1_access_times = TimesPop(@, key)],
                          key, current_time)
       ELSE GetL2(s1, key, current_time)

get(self, key) ==
    LET current_time == Time(self)
        s1 == Read(self)
    IN IF key \in DOMAIN s1.l1_cache
       THEN LET entry == s1.l1_cache[key]
            IN IF Unexpired(current_time, entry)
               THEN [self |-> [s1 EXCEPT
                                 !.l1_access_times = TimesPut(@, key, current_time),
                                 !.stats.l1_hits = @ + 1],
                     result |-> Some(entry.value)]
               ELSE GetL2([s1 EXCEPT !.l1_cache = DictDel(@, key),
                                     !.l1_access_times = TimesPop(@, key)],
                          key, current_time)
       ELSE GetL2(s1, key, current_time)

\* ttl or self.default_ttl: None and 0 are both falsy
EffectiveTtl(self, ttl) ==
    IF ttl = None \/ ttl = Some(0) THEN self.default_ttl ELSE The(ttl)

\* the insertion that ends set
SetStore(self, key, entry, current_time) ==
    [self EXCEPT !.l1_cache = DictPut(@, key, entry),
                 !.l1_access_times = TimesPut(@, key, current_time)]

\* A faulty variant of set: a key that is in l1 already is overwritten where
\* it is, without making room.
set_overwriting_in_place(self, key, value, ttl) ==
    LET ttl_ == EffectiveTtl(self, ttl)
        current_time == Time(self)
        s1 == Read(self)
        expires_at == current_time + ttl_
        entry == [value |-> value, expires_at |-> expires_at,
                  created_at |-> current_time, access_count |-> 1]
        s2 == IF key \in DOMAIN s1.l1_cache THEN s1 ELSE _ensure_l1_space(s1)
    IN [self |-> SetStore(s2, key, entry, current_time), result |-> None]

set(self, key, value, ttl) ==
    LET ttl_ == EffectiveTtl(self, ttl)
        current_time == Time(self)
        s1 == Read(self)
        expires_at == current_time + ttl_
        entry == [value |-> value, expires_at |-> expires_at,
                  created_at |-> current_time, access_count |-> 1]
        s2 == _ensure_l1_space(s1)
    IN [self |-> SetStore(s2, key, entry, current_time), result |-> None]

\* A faulty variant of InvalidateKeysLoop: the keys are removed from l1 only.
RECURSIVE InvalidateKeysLoopL1Only(_, _, _)
InvalidateKeysLoopL1Only(self, keys, invalidated_) ==
    IF keys = <<>> THEN [self |-> self, invalidated |-> invalidated_]
    ELSE LET key == Head(keys)
             in1 == key \in DOMAIN self.l1_cache
             s1 == IF in1
                   THEN [self EXCEPT !.l1_cache = DictDel(@, key),
                                     !.l1_access_times = TimesPop(@, key)]
                   ELSE self
         IN InvalidateKeysLoopL1Only(s1, Tail(keys),
                invalidated_ + (IF in1 THEN 1 ELSE 0))

\* A faulty variant of InvalidateKeysLoop: a key found in both tiers counts once.
RECURSIVE InvalidateKeysLoopOncePerKey(_, _, _)
InvalidateKeysLoopOncePerKey(self, keys, invalidated_) ==
    IF keys = <<>> THEN [self |-> self, invalidated |-> invalidated_]
    ELSE LET key == Head(keys)
             in1 == key \in DOMAIN self.l1_cache
             in2 == key \in DOMAIN self.l2_cache
             s2 == [self EXCEPT !.l1_cache = DictDel(@, key),
                                !.l1_access_times = TimesPop(@, key),
                                !.l2_cache = DictDel(@, key),
                                !.l2_access_times = TimesPop(@, key)]
         IN InvalidateKeysLoopOncePerKey(s2, Tail(keys),
                invalidated_ + (IF in1 \/ in2 THEN 1 ELSE 0))

\* the loop of invalidate over an explicit list of keys
RECURSIVE InvalidateKeysLoop(_, _, _)
InvalidateKeysLoop(self, keys, invalidated_) ==
    IF keys = <<>> THEN [self |-> self, invalidated |-> invalidated_]
    ELSE LET key == Head(keys)
             in1 == key \in DOMAIN self.l1_cache
             s1 == IF in1
                   THEN [self EXCEPT !.l1_cache = DictDel(@, key),
                                     !.l1_access_times = TimesPop(@, key)]
                   ELSE self
             in2 == key \in DOMAIN s1.l2_cache
             s2 == IF in2
                   THEN [s1 EXCEPT !.l2_cache = DictDel(@, key),
                                   !.l2_access_times = TimesPop(@, key)]
                   ELSE s1
         IN InvalidateKeysLoop(s2, Tail(keys),
                invalidated_ + (IF in1 THEN 1 ELSE 0) + (IF in2 THEN 1 ELSE 0))

\* list(d.keys()): the keys of a cache dict in some order (the outcome of the
\* loops below does not depend on which)
RECURSIVE KeyList(_)
KeyList(keyset) ==
    IF keyset = {} THEN <<>>
    ELSE LET k == CHOOSE x \in keyset : TRUE
         IN <<k>> \o KeyList(keyset \ {k})

\* A faulty variant of ToRemove: only the keys of l1 are scanned.
ToRemoveL1Only(self, pattern) ==
    SelectSeq(KeyList(DOMAIN self.l1_cache), LAMBDA key : Contains(key, pattern))

\* the list to_remove that invalidate builds for a pattern
ToRemove(self, pattern) ==
    SelectSeq(KeyList(DOMAIN self.l1_cache) \o KeyList(DOMAIN self.l2_cache),
              LAMBDA key : Contains(key, pattern))

\* the loop of invalidate over to_remove
RECURSIVE InvalidatePatternLoop(_, _, _)
InvalidatePatternLoop(self, to_remove, invalidated_) ==
    IF to_remove = <<>> THEN [self |-> self, invalidated |-> invalidated_]
    ELSE LET key == Head(to_remove)
         IN InvalidatePatternLoop(
                [self EXCEPT !.l1_cache = DictDel(@, key),
                             !.l1_access_times = TimesPop(@, key),
                             !.l2_cache = DictDel(@, key),
                             !.l2_access_times = TimesPop(@, key)],
                Tail(to_remove), invalidated_ + 1)

\* if keys: a list is truthy when it is not None and not empty
KeysGiven(keys) == keys # None /\ The(keys) # <<>>

\* elif pattern: a string is truthy when it is not None and not empty
PatternGiven(pattern) == pattern # None /\ The(pattern) # <<>>

\* A faulty variant of invalidate: without keys and pattern everything is removed.
invalidate_clearing(self, pattern, keys) ==
    LET done == IF KeysGiven(keys)
                THEN InvalidateKeysLoop(self, The(keys), 0)
                ELSE IF PatternGiven(pattern)
                     THEN InvalidatePatternLoop(self, ToRemove(self, The(pattern)), 0)
                     ELSE InvalidatePatternLoop(self, ToRemove(self, <<>>), 0)
    IN [self |-> [done.self EXCEPT !.stats.invalidations = @ + done.invalidated],
        result |-> done.invalidated]

\* A faulty variant of invalidate: the counter counts the calls, not the removals.
invalidate_counting_calls(self, pattern, keys) ==
    LET done == IF KeysGiven(keys)
                THEN InvalidateKeysLoop(self, The(keys), 0)
                ELSE IF PatternGiven(pattern)
                     THEN InvalidatePatternLoop(self, ToRemove(self, The(pattern)), 0)
                     ELSE [self |-> self, invalidated |-> 0]
    IN [self |-> [done.self EXCEPT !.stats.invalidations = @ + 1],
        result |-> done.invalidated]

invalidate(self, pattern, keys) ==
    LET done == IF KeysGiven(keys)
                THEN InvalidateKeysLoop(self, The(keys), 0)
                ELSE IF PatternGiven(pattern)
                     THEN InvalidatePatternLoop(self, ToRemove(self, The(pattern)), 0)
                     ELSE [self |-> self, invalidated |-> 0]
    IN [self |-> [done.self EXCEPT !.stats.invalidations = @ + done.invalidated],
        result |-> done.invalidated]

\* the larger of two integers (the built-in max)
Max(a, b) == IF a >= b THEN a ELSE b

RECURSIVE Gcd(_, _)
Gcd(a, b) == IF b = 0 THEN a ELSE Gcd(b, a % b)

\* the quotient a / b of two small non-negative integers, b > 0.  Python's
\* true division gives the nearest float, and two such quotients are the same
\* float exactly when they are the same fraction: the quotient is kept as the
\* fraction in lowest terms <<numerator, denominator>>.
TrueDiv(a, b) == LET g == Gcd(a, b) IN <<a \div g, b \div g>>

\* A faulty variant of get_stats: the hit rate of l1 is taken over the
\* lookups of both tiers.
get_stats_over_all_lookups(self) ==
    LET st == self.stats
        l2_hit_rate == TrueDiv(st.l2_hits, Max(st.l2_hits + st.l2_misses, 1))
        total_hit_rate ==
            TrueDiv(st.l1_hits + st.l2_hits,
                    Max(st.l1_hits + st.l1_misses + st.l2_hits + st.l2_misses, 1))
        l1_hit_rate ==
            TrueDiv(st.l1_hits,
                    Max(st.l1_hits + st.l1_misses + st.l2_hits + st.l2_misses, 1))
    IN [l1_hits |-> st.l1_hits, l1_misses |-> st.l1_misses,
        l2_hits |-> st.l2_hits, l2_misses |-> st.l2_misses,
        evictions |-> st.evictions, invalidations |-> st.invalidations,
        l1_size |-> Cardinality(DOMAIN self.l1_cache),
        l2_size |-> Cardinality(DOMAIN self.l2_cache),
        l1_hit_rate |-> l1_hit_rate,
        l2_hit_rate |-> l2_hit_rate,
        total_hit_rate |-> total_hit_rate]

\* MultiLevelCache.get_stats: the dictionary it returns
get_stats(self) ==
    LET st == self.stats
        l1_hit_rate == TrueDiv(st.l1_hits, Max(st.l1_hits + st.l1_misses, 1))
        l2_hit_rate == TrueDiv(st.l2_hits, Max(st.l2_hits + st.l2_misses, 1))
    IN [l1_hits |-> st.l1_hits, l1_misses |-> st.l1_misses,
        l2_hits |-> st.l2_hits, l2_misses |-> st.l2_misses,
        evictions |-> st.evictions, invalidations |-> st.invalidations,
        l1_size |-> Cardinality(DOMAIN self.l1_cache),
        l2_size |-> Cardinality(DOMAIN self.l2_cache),
        l1_hit_rate |-> l1_hit_rate,
        l2_hit_rate |-> l2_hit_rate,
        total_hit_rate |->
            TrueDiv(st.l1_hits + st.l2_hits,
                    Max(st.l1_hits + st.l1_misses + st.l2_hits + st.l2_misses, 1))]

-----------------------------------------------------------------------------
(* The state machine: one action per call of the public interface, and the *)
(* passing of time between calls.  A run starts with the constructed,      *)
(* empty cache; it may begin with a fill made at time 0, set(FillKeys[1]), *)
(* set(FillKeys[2]) and so on, and goes on with at most MaxOps calls of    *)
(* any kind.                                                               *)

\* the configurations <<l1_size, l2_size, default_ttl>> the cache is built with
Configs == {<<1, 4, 2>>, <<4, 4, 2>>, <<4, 1, 2>>}

TtlArgs == {None, Some(1)}
KeysArgs == {None, Some(<<>>), Some(<< <<"a">> >>), Some(<< <<"a", "b">>, <<"c">> >>)}
PatternArgs == {None, Some(<<>>), Some(<<"a">>)}

NoCall ==
    [seq |-> 0, op |-> "init", key |-> None, value |-> None, ttl |-> None,
     pattern |-> None, keys |-> None, time |-> 0, result |-> None, count |-> 0,
     snapshot |-> None]

\* no get is waiting at its await
NotSuspended == [get |-> None, placed |-> {}, unplaced |-> None]

\* MultiLevelCache.__init__
Construct(config) ==
    /\ l1_size = config[1]
    /\ l2_size = config[2]
    /\ default_ttl = config[3]
    /\ l1_cache = <<>>
    /\ l1_access_times = <<>>
    /\ l2_cache = <<>>
    /\ l2_access_times = <<>>
    /\ stats = [l1_hits |-> 0, l1_misses |-> 0, l2_hits |-> 0, l2_misses |-> 0,
                evictions |-> 0, invalidations |-> 0]
    /\ now = 0
    /\ ret = NoCall
    /\ filled = 0
    /\ last_set = [k \in Keys \cup {LruKeys[i] : i \in 1..Len(LruKeys)} |-> None]
    /\ invalidated = {}
    /\ evicted = [l1 |-> 0, l2 |-> 0, l1_seen |-> None, l1_batch |-> <<>>]
    /\ suspended = NotSuspended

Init == \E config \in Configs : Construct(config)

\* the object's fields and the clock after a call
Return(self) ==
    /\ ClockAfter(self) <= MaxTime
    /\ l1_cache' = self.l1_cache
    /\ l1_access_times' = self.l1_access_times
    /\ l2_cache' = self.l2_cache
    /\ l2_access_times' = self.l2_access_times
    /\ stats' = self.stats
    /\ now' = ClockAfter(self)
    /\ evicted' = self.evicted
    /\ UNCHANGED <<l1_size, l2_size, default_ttl>>

\* a call of get, whoever makes it
GetCall(key, calm) ==
    /\ LET out == get(Self(calm), key)
       IN /\ Return(out.self)
          /\ ret' = [NoCall EXCEPT !.seq = ret.seq + 1, !.op = "get",
                                   !.key = Some(key), !.time = now,
                                   !.result = out.result]
    /\ UNCHANGED <<filled, last_set, invalidated>>

\* a call of get
Get(key, calm) ==
    /\ ret.seq - filled < MaxOps
    /\ GetCall(key, calm)
    /\ UNCHANGED suspended

\* a call of set, whoever makes it
SetCall(key, value, ttl, calm) ==
    /\ LET out == set(Self(calm), key, value, ttl)
       IN /\ Return(out.self)
          /\ ret' = [NoCall EXCEPT !.seq = ret.seq + 1, !.op = "set",
                                   !.key = Some(key), !.value = Some(value),
                                   !.ttl = ttl, !.time = now]
          /\ last_set' = [last_set EXCEPT ![key] =
                 Some([value |-> value,
                       expires_at |-> now + EffectiveTtl(Self(calm), ttl)])]
    /\ invalidated' = invalidated \ {key}

\* a call of set
Set(key, value, ttl, calm) ==
    /\ ret.seq - filled < MaxOps
    /\ SetCall(key, value, ttl, calm)
    /\ UNCHANGED <<filled, suspended>>

\* the next call of the initial fill
Fill ==
    /\ filled = ret.seq
    /\ filled < MaxFill
    /\ now = 0
    /\ SetCall(FillKeys[(filled % Len(FillKeys)) + 1], "v1", None, MaxCalm)
    /\ filled' = filled + 1
    /\ UNCHANGED suspended

\* a call of invalidate, whoever makes it (it does not read the clock)
InvalidateCall(pattern, keys) ==
    /\ LET out == invalidate(Self(MaxCalm), pattern, keys)
       IN /\ Return(out.self)
          /\ ret' = [NoCall EXCEPT !.seq = ret.seq + 1, !.op = "invalidate",
                                   !.pattern = pattern, !.keys = keys,
                                   !.time = now, !.count = out.result]
    /\ invalidated' = IF KeysGiven(keys)
                      THEN invalidated \cup {The(keys)[i] : i \in 1..Len(The(keys))}
                      ELSE invalidated
    /\ UNCHANGED <<filled, last_set>>

\* a call of invalidate
Invalidate(pattern, keys) ==
    /\ ret.seq - filled < MaxOps
    /\ InvalidateCall(pattern, keys)
    /\ UNCHANGED suspended

\* time passes between two calls
Tick ==
    /\ now < MaxTime
    /\ now' = now + 1
    /\ UNCHANGED <<l1_size, l2_size, default_ttl, l1_cache, l1_access_times,
                   l2_cache, l2_access_times, stats, ret, filled, last_set,
                   invalidated, evicted, suspended>>

Next ==
    \/ Fill
    \/ \E key \in Keys, calm \in 1..MaxCalm : Get(key, calm)
    \/ \E key \in Keys, value \in Values, ttl \in TtlArgs, calm \in 1..MaxCalm :
           Set(key, value, ttl, calm)
    \/ \E pattern \in PatternArgs, keys \in KeysArgs : Invalidate(pattern, keys)
    \/ Tick

Spec == Init /\ [][Next]_vars

-----------------------------------------------------------------------------
(* A cache built with a capacity of zero or less: the same calls. *)

ZeroConfigs == {<<0, 4, 2>>, <<-1, 4, 2>>, <<4, 0, 2>>}

InitZero == \E config \in ZeroConfigs : Construct(config)

SpecZero == InitZero /\ [][Next]_vars

-----------------------------------------------------------------------------
(* Entries stored with a time to live of zero or less, and read back. *)

ExpiredTtlArgs == {Some(0), Some(-1)}

NextTtl ==
    \/ Fill
    \/ \E key \in Keys, value \in Values, ttl \in ExpiredTtlArgs,
          calm \in 1..MaxCalm : Set(key, value, ttl, calm)
    \/ \E key \in Keys, calm \in 1..MaxCalm : Get(key, calm)
    \/ Tick

SpecTtl == Init /\ [][NextTtl]_vars

-----------------------------------------------------------------------------
(* Several callers.  No method takes a lock, so a get that has found its   *)
(* key in l2 can be held at "await self._promote_to_l1(key, entry)" while  *)
(* another caller's set, get or invalidate runs.  While a get is held,     *)
(* suspended.unplaced is the object as it would be had that get not begun, *)
(* and suspended.placed the objects the calls made so far give when they   *)
(* run one after the other, the held get at any place among the others.    *)
(* The clock stands still while a get is held, so that a difference from   *)
(* the serial outcomes is due to the other callers alone.                  *)

\* the object s at the present time, at the start of a call
At(s) == [s EXCEPT !.now = now, !.calm = MaxCalm, !.reads = 0]

\* the serial outcomes once another caller's call has run: placed are the
\* outcomes of the call after the held get, after the outcome of the call alone
Advance(placed, after) ==
    LET key == The(suspended.get).key
    IN [suspended EXCEPT
          !.placed = placed \cup {get(At(after), key).self},
          !.unplaced = Some(after)]

\* get(key) up to its await: the key is in l2, not expired
GetSuspend(key) ==
    /\ suspended.get = None
    /\ ret.seq - filled < MaxOps
    /\ LET self == Self(MaxCalm)
           current_time == Time(self)
           s1 == Read(self)
           s2 == IF key \in DOMAIN s1.l1_cache
                 THEN [s1 EXCEPT !.l1_cache = DictDel(@, key),
                                 !.l1_access_times = TimesPop(@, key)]
                 ELSE s1
       IN /\ key \in DOMAIN s1.l1_cache
                 => ~Unexpired(current_time, s1.l1_cache[key])
          /\ key \in DOMAIN s2.l2_cache
          /\ Unexpired(current_time, s2.l2_cache[key])
          /\ Return(s2)
          /\ suspended' = [get |-> Some([key |-> key, entry |-> s2.l2_cache[key]]),
                           placed |-> {get(self, key).self},
                           unplaced |-> Some(self)]
    /\ UNCHANGED <<ret, filled, last_set, invalidated>>

\* the rest of the get: the promotion, the count of the hit and the return
GetResume ==
    /\ suspended.get # None
    /\ LET key == The(suspended.get).key
           entry == The(suspended.get).entry
           s1 == _promote_to_l1(Self(MaxCalm), key, entry)
           s2 == [s1 EXCEPT !.stats.l2_hits = @ + 1]
       IN /\ Return(s2)
          /\ ret' = [NoCall EXCEPT !.seq = ret.seq + 1, !.op = "get",
                                   !.key = Some(key), !.time = now,
                                   !.result = Some(entry.value)]
    /\ suspended' = NotSuspended
    /\ UNCHANGED <<filled, last_set, invalidated>>

\* another caller's set while a get is held
ConcSet(key, value, ttl) ==
    /\ suspended.get # None
    /\ ret.seq - filled < MaxOps
    /\ SetCall(key, value, ttl, MaxCalm)
    /\ suspended' =
           Advance({set(At(s), key, value, ttl).self : s \in suspended.placed},
                   set(At(The(suspended.unplaced)), key, value, ttl).self)
    /\ UNCHANGED filled

\* another caller's get while a get is held
ConcGet(key) ==
    /\ suspended.get # None
    /\ ret.seq - filled < MaxOps
    /\ GetCall(key, MaxCalm)
    /\ suspended' =
           Advance({get(At(s), key).self : s \in suspended.placed},
                   get(At(The(suspended.unplaced)), key).self)

\* another caller's invalidate while a get is held
ConcInvalidate(pattern, keys) ==
    /\ suspended.get # None
    /\ ret.seq - filled < MaxOps
    /\ InvalidateCall(pattern, keys)
    /\ suspended' =
           Advance({invalidate(At(s), pattern, keys).self : s \in suspended.placed},
                   invalidate(At(The(suspended.unplaced)), pattern, keys).self)

NextConc ==
    \/ suspended.get = None /\ Fill
    \/ \E key \in Keys : GetSuspend(key)
    \/ GetResume
    \/ \E key \in Keys, value \in Values, ttl \in TtlArgs : ConcSet(key, value, ttl)
    \/ \E key \in Keys : ConcGet(key)
    \/ \E pattern \in PatternArgs, keys \in KeysArgs : ConcInvalidate(pattern, keys)
    \/ suspended.get = None /\ Tick

SpecConc == Init /\ [][NextConc]_vars

-----------------------------------------------------------------------------
(* Recency.  A cache of capacity N = 4..7 is filled key by key, k1..kN, at *)
(* any times; then come at most MaxLruOps calls: get of k1 or k2, set of   *)
(* the next key k(N+1), set of k1 again.                                   *)

LruConfigs == {<<4, 4, 2>>, <<5, 4, 2>>, <<6, 4, 2>>, <<7, 4, 2>>}

InitLru == \E config \in LruConfigs : Construct(config)

\* set(k1), ..., set(kN)
LruFill(calm) ==
    /\ filled = ret.seq
    /\ filled < l1_size
    /\ SetCall(LruKeys[filled + 1], "v1", None, calm)
    /\ filled' = filled + 1
    /\ UNCHANGED suspended

\* get(k1) or get(k2)
LruGet(key, calm) ==
    /\ filled = l1_size
    /\ ret.seq - filled < MaxLruOps
    /\ GetCall(key, calm)
    /\ UNCHANGED suspended

\* set(k(N+1)), or set(k1) once more
LruSet(key, calm) ==
    /\ filled = l1_size
    /\ ret.seq - filled < MaxLruOps
    /\ SetCall(key, "v1", None, calm)
    /\ UNCHANGED <<filled, suspended>>

NextLru ==
    \/ \E calm \in 1..MaxCalm : LruFill(calm)
    \/ \E key \in {LruKeys[1], LruKeys[2]}, calm \in 1..MaxCalm : LruGet(key, calm)
    \/ \E key \in {LruKeys[1], LruKeys[l1_size + 1]}, calm \in 1..MaxCalm :
          LruSet(key, calm)
    \/ Tick

SpecLru == InitLru /\ [][NextLru]_vars

-----------------------------------------------------------------------------
(* Reading the statistics: after the fill, calls of get and of get_stats. *)

StatKeys == {<<"a">>, <<"c">>}

\* a call of get whose counters get_stats will report
StatGet(key) ==
    /\ ret.seq - filled < MaxStatCalls
    /\ GetCall(key, MaxCalm)
    /\ UNCHANGED suspended

\* a call of get_stats: it changes nothing and returns the snapshot
GetStats ==
    /\ ret.seq - filled < MaxStatCalls
    /\ ret' = [NoCall EXCEPT !.seq = ret.seq + 1, !.op = "get_stats",
                             !.time = now,
                             !.snapshot = Some(get_stats(Self(MaxCalm)))]
    /\ UNCHANGED <<l1_size, l2_size, default_ttl, l1_cache, l1_access_times,
                   l2_cache, l2_access_times, stats, now, filled, last_set,
                   invalidated, evicted, suspended>>

NextStats ==
    \/ Fill
    \/ \E key \in StatKeys : StatGet(key)
    \/ GetStats
    \/ Tick

SpecStats == Init /\ [][NextStats]_vars

-----------------------------------------------------------------------------
(* Vocabulary of the properties. *)

\* this step is a call (of get, set or invalidate)
CallStep == ret'.seq = ret.seq + 1

\* this step is the call get(key)
GetStep(key) == CallStep /\ ret'.op = "get" /\ ret'.key = Some(key)

\* this step is a call of invalidate
InvalidateStep == CallStep /\ ret'.op = "invalidate"

\* the entries stored for key, in either tier
StoredCopies(key) ==
    {l1_cache[k] : k \in (DOMAIN l1_cache) \cap {key}}
        \cup {l2_cache[k] : k \in (DOMAIN l2_cache) \cap {key}}

\* key is in l1 with an entry that has not expired
HotLive(key) == key \in DOMAIN l1_cache /\ now < l1_cache[key].expires_at

\* get(key) would be answered from l2
WarmLive(key) ==
    /\ ~HotLive(key)
    /\ key \in DOMAIN l2_cache
    /\ now < l2_cache[key].expires_at

\* the elements of a Python list
Elements(list) == {list[i] : i \in 1..Len(list)}

-----------------------------------------------------------------------------
(* C1: single-tier membership.  In every reachable state no key is in both *)
(* l1_cache and l2_cache.                                                  *)
C1_SingleTier == (DOMAIN l1_cache) \cap (DOMAIN l2_cache) = {}

(* C2: capacity bound.  After every call, len(l1_cache) <= l1_size and     *)
(* len(l2_cache) <= l2_size, for every configured size.                    *)
C2_CapacityBound ==
    /\ Cardinality(DOMAIN l1_cache) <= l1_size
    /\ Cardinality(DOMAIN l2_cache) <= l2_size

(* C3: no expired entry is returned.  Whenever get(key) returns a value,   *)
(* the value is that of an entry stored for key whose expires_at is        *)
(* strictly greater than the time of the get; so a key all of whose stored *)
(* entries have expired is answered as absent.                             *)
C3_NoExpiredReturned ==
    [][\A key \in Keys :
          (GetStep(key) /\ ret'.result # None)
              => \E entry \in StoredCopies(key) :
                     /\ entry.value = The(ret'.result)
                     /\ now < entry.expires_at]_vars

\* a get at time 1 returned the value of an entry that expires at time 2,
\* and an expired copy of another key is still stored
C3_Witness ==
    /\ ret.op = "get"
    /\ ret.result # None
    /\ ret.time = 1
    /\ The(ret.key) \in DOMAIN l1_cache
    /\ l1_cache[The(ret.key)].expires_at = 2
    /\ \E k \in DOMAIN l1_cache : l1_cache[k].expires_at <= ret.time

(* C4: TTL correctness.  After set(k, v, ttl) with ttl > 0, a get(k) that  *)
(* is the next call and is issued before set time + ttl returns v; a       *)
(* get(k) issued at or after set time + ttl, with no later set(k), returns *)
(* None.                                                                   *)
C4_TtlCorrectness ==
    [][\A key \in Keys :
          GetStep(key) =>
              /\ (/\ ret.op = "set"
                  /\ ret.key = Some(key)
                  /\ now < The(last_set[key]).expires_at)
                     => ret'.result = ret.value
              /\ (/\ last_set[key] # None
                  /\ now >= The(last_set[key]).expires_at)
                     => ret'.result = None]_vars

(* C5: last writer wins.  After set(k, v2), no get(k) returns the value of *)
(* an earlier set(k, v1): a value that get(k) returns is the value of the  *)
(* latest set(k).                                                          *)
C5_LastWriterWins ==
    (ret.op = "get" /\ ret.result # None)
        => /\ last_set[The(ret.key)] # None
           /\ The(ret.result) = The(last_set[The(ret.key)]).value

(* C6: promotion preserves value and expiry.  A get(k) answered from an    *)
(* unexpired l2 entry returns that entry's value, and afterwards k is in   *)
(* l1 and not in l2, with the same value and the same expires_at.          *)
C6_PromotionPreserves ==
    [][\A key \in Keys :
          (GetStep(key) /\ WarmLive(key))
              => /\ ret'.result = Some(l2_cache[key].value)
                 /\ key \in DOMAIN l1_cache'
                 /\ key \notin DOMAIN l2_cache'
                 /\ l1_cache'[key].value = l2_cache[key].value
                 /\ l1_cache'[key].expires_at = l2_cache[key].expires_at]_vars

\* the first call after a fill of 8 was a get answered from l2 whose
\* promotion evicted one entry from the full l1 and one from the full l2
C6_Witness ==
    /\ l1_size = 4
    /\ l2_size = 4
    /\ filled = 8
    /\ ret.seq = 9
    /\ ret.op = "get"
    /\ ret.result # None
    /\ stats.l2_hits = 1
    /\ stats.evictions = 6
    /\ The(ret.key) \in DOMAIN l1_cache
    /\ The(ret.key) \notin DOMAIN l2_cache

(* C7: LRU eviction order on overflow.  For every l1_size N >= 1, after    *)
(* set of N + 1 distinct keys k1..k(N+1) on the empty cache, with nothing  *)
(* expired, exactly k1 is in l2 and k2..k(N+1) are in l1.                  *)
C7_LruOverflow ==
    (filled = l1_size + 1 /\ ret.seq = filled /\ now = 0)
        => /\ DOMAIN l2_cache = {FillKeys[1]}
           /\ DOMAIN l1_cache = {FillKeys[i] : i \in 2..(l1_size + 1)}

(* C8: exact-key invalidation clears both tiers.  After invalidate(keys=L) *)
(* every key of L is in neither tier, and until the next set(k) every      *)
(* get(k) returns None.                                                    *)
C8_ExactInvalidation ==
    \A key \in invalidated :
        /\ key \notin DOMAIN l1_cache
        /\ key \notin DOMAIN l2_cache
        /\ (ret.op = "get" /\ ret.key = Some(key)) => ret.result = None

\* invalidate(keys=["a"]) found "a" in both tiers, and the get("a") after
\* it returned None
C8_Witness ==
    /\ ret.op = "get"
    /\ ret.key = Some(<<"a">>)
    /\ <<"a">> \in invalidated
    /\ stats.invalidations = 2
    /\ ret.result = None

(* C9: pattern invalidation.  invalidate(pattern=p) with a non-empty p and *)
(* no keys removes from both tiers every key that contains p, leaves every *)
(* other entry and its access time as they were, and returns the number of *)
(* tier entries it removed.                                                *)
C9_PatternInvalidation ==
    [][(InvalidateStep /\ ret'.keys = None /\ PatternGiven(ret'.pattern))
          => LET p == The(ret'.pattern)
                 keep1 == {k \in DOMAIN l1_cache : ~Contains(k, p)}
                 keep2 == {k \in DOMAIN l2_cache : ~Contains(k, p)}
             IN /\ DOMAIN l1_cache' = keep1
                /\ DOMAIN l2_cache' = keep2
                /\ \A k \in keep1 : l1_cache'[k] = l1_cache[k]
                /\ \A k \in keep2 : l2_cache'[k] = l2_cache[k]
                /\ l1_access_times' =
                       SelectSeq(l1_access_times, LAMBDA x : x[1] \in keep1)
                /\ l2_access_times' =
                       SelectSeq(l2_access_times, LAMBDA x : x[1] \in keep2)
                /\ ret'.count = Cardinality((DOMAIN l1_cache) \ keep1)
                                  + Cardinality((DOMAIN l2_cache) \ keep2)]_vars

\* of the three keys "a", "ab", "b", invalidate(pattern="a") removed the
\* two that contain "a" and returned 2
C9_Witness ==
    /\ filled = 3
    /\ ret.seq = 4
    /\ ret.op = "invalidate"
    /\ ret.keys = None
    /\ ret.pattern = Some(<<"a">>)
    /\ ret.count = 2
    /\ DOMAIN l1_cache = {<<"b">>}

(* C10: keys take precedence over pattern.  invalidate called with a keys  *)
(* list (also an empty one) and a pattern removes only the entries whose   *)
(* key is in the list; the pattern is ignored.                             *)
C10_KeysOverPattern ==
    [][(InvalidateStep /\ ret'.keys # None /\ ret'.pattern # None)
          => LET listed == Elements(The(ret'.keys))
             IN /\ DOMAIN l1_cache' = (DOMAIN l1_cache) \ listed
                /\ DOMAIN l2_cache' = (DOMAIN l2_cache) \ listed]_vars

(* C11: invalidate called with neither keys nor pattern (None, or an empty *)
(* list or string, which the code treats alike) returns 0 and leaves both  *)
(* tiers, both access-time maps and every statistics counter unchanged.    *)
C11_InvalidateNothing ==
    [][(InvalidateStep /\ ~KeysGiven(ret'.keys) /\ ~PatternGiven(ret'.pattern))
          => /\ ret'.count = 0
             /\ UNCHANGED <<l1_cache, l1_access_times, l2_cache,
                            l2_access_times, stats>>]_vars

\* invalidate() returned 0 on a cache that holds entries in both tiers
C11_Witness ==
    /\ ret.op = "invalidate"
    /\ ret.keys = None
    /\ ret.pattern = None
    /\ ret.count = 0
    /\ l1_cache # <<>>
    /\ l2_cache # <<>>

(* C12: exact-mode count.  invalidate(keys=L) returns one for each listed  *)
(* key found in l1 plus one for each listed key found in l2: a key in both *)
(* tiers counts twice, a key in neither counts zero.                       *)
C12_ExactCount ==
    [][(InvalidateStep /\ KeysGiven(ret'.keys))
          => LET listed == Elements(The(ret'.keys))
             IN ret'.count = Cardinality(listed \cap DOMAIN l1_cache)
                               + Cardinality(listed \cap DOMAIN l2_cache)]_vars

\* invalidate(keys=["ab", "c"]) found "ab" in both tiers and "c" in l1 only,
\* and returned 3
C12_Witness ==
    /\ ret.op = "invalidate"
    /\ ret.keys = Some(<< <<"a", "b">>, <<"c">> >>)
    /\ ret.count = 3
    /\ ret.seq = filled + 1

(* C13: the invalidation counter.  Every call of invalidate adds the count *)
(* it returns to stats["invalidations"], and no other step changes that    *)
(* counter; so the counter is the sum of the counts returned so far.       *)
C13_InvalidationCounter ==
    [][IF InvalidateStep
       THEN stats'.invalidations = stats.invalidations + ret'.count
       ELSE stats'.invalidations = stats.invalidations]_vars

\* two calls of invalidate have removed entries: the counter is the sum of
\* what they returned
C13_Witness ==
    /\ ret.op = "invalidate"
    /\ ret.count >= 2
    /\ stats.invalidations > ret.count

\* the hit and miss counters
HitMissCounters(s) == <<s.l1_hits, s.l1_misses, s.l2_hits, s.l2_misses>>

(* C15: every get changes the hit and miss counters in one of three ways.  *)
(* A hit in l1 adds one to l1_hits only; a hit in l2 adds one to l2_hits   *)
(* only; a miss in both tiers adds one to l1_misses and one to l2_misses   *)
(* and returns None.  No other step changes the four counters.             *)
C15_GetCounters ==
    [][/\ \A key \in Keys :
            GetStep(key) =>
                IF HotLive(key)
                THEN HitMissCounters(stats') =
                         <<stats.l1_hits + 1, stats.l1_misses,
                           stats.l2_hits, stats.l2_misses>>
                ELSE IF WarmLive(key)
                THEN HitMissCounters(stats') =
                         <<stats.l1_hits, stats.l1_misses,
                           stats.l2_hits + 1, stats.l2_misses>>
                ELSE /\ HitMissCounters(stats') =
                            <<stats.l1_hits, stats.l1_misses + 1,
                              stats.l2_hits, stats.l2_misses + 1>>
                     /\ ret'.result = None
       /\ ~(CallStep /\ ret'.op = "get")
              => HitMissCounters(stats') = HitMissCounters(stats)]_vars

\* a miss and a hit in l2 have been counted
C15_Witness ==
    /\ ret.op = "get"
    /\ HitMissCounters(stats) = <<0, 1, 1, 1>>

\* rate is the quotient hits / lookups, or 0 when there were no lookups
IsRate(rate, hits, lookups) ==
    /\ rate[2] > 0
    /\ IF lookups > 0
       THEN rate[1] * lookups = hits * rate[2]
       ELSE rate[1] = 0

(* C14: the hit rates of get_stats.  l1_hit_rate = l1_hits / (l1_hits +    *)
(* l1_misses), l2_hit_rate = l2_hits / (l2_hits + l2_misses) and           *)
(* total_hit_rate = (l1_hits + l2_hits) / (the sum of the four counters)   *)
(* when the denominator is positive, and the rate is 0 when it is 0; after *)
(* exactly 3 hits of l1 and 1 miss the l1 hit rate is 3/4.                 *)
C14_HitRates ==
    ret.op = "get_stats" =>
        LET snapshot == The(ret.snapshot)
        IN /\ IsRate(snapshot.l1_hit_rate, stats.l1_hits,
                     stats.l1_hits + stats.l1_misses)
           /\ IsRate(snapshot.l2_hit_rate, stats.l2_hits,
                     stats.l2_hits + stats.l2_misses)
           /\ IsRate(snapshot.total_hit_rate, stats.l1_hits + stats.l2_hits,
                     stats.l1_hits + stats.l1_misses
                         + stats.l2_hits + stats.l2_misses)
           /\ (stats.l1_hits = 3 /\ stats.l1_misses = 1)
                  => snapshot.l1_hit_rate = <<3, 4>>

\* get_stats after exactly 3 hits of l1 and 1 miss reported the rate 3/4
C14_Witness ==
    /\ ret.op = "get_stats"
    /\ stats.l1_hits = 3
    /\ stats.l1_misses = 1
    /\ The(ret.snapshot).l1_hit_rate = <<3, 4>>

(* C16: a tier whose capacity is zero or negative caches nothing.  With    *)
(* l1_size <= 0 l1 holds no entry after a set completes, and with          *)
(* l2_size <= 0 l2 never holds a demoted entry.                            *)
C16_NoCapacityNoCaching ==
    /\ (l1_size <= 0 /\ ret.op = "set") => l1_cache = <<>>
    /\ l2_size <= 0 => l2_cache = <<>>

(* C17: a set with a time to live of zero or less stores an entry that is  *)
(* already expired.  For every ttl <= 0, ttl = 0 included, the next get of *)
(* the key after set(key, value, ttl) returns None.                        *)
C17_NonPositiveTtlExpired ==
    [][(/\ ret.op = "set"
        /\ ret.ttl # None
        /\ The(ret.ttl) <= 0
        /\ GetStep(The(ret.key)))
          => ret'.result = None]_vars

\* the time of last access l1 records for the key
L1AccessTime(key) ==
    LET i == CHOOSE i \in 1..Len(l1_access_times) : l1_access_times[i][1] = key
    IN l1_access_times[i][2]

(* C19: the postcondition of set.  After set(key, value, ttl) the key is   *)
(* in l1 with the given value, with expires_at equal to the time of the    *)
(* set plus ttl, or plus default_ttl when the caller passed no ttl, and    *)
(* with a time of last access in l1 equal to the time of the set.          *)
C19_SetPostcondition ==
    ret.op = "set" =>
        LET key == The(ret.key)
        IN /\ key \in DOMAIN l1_cache
           /\ l1_cache[key].value = The(ret.value)
           /\ l1_cache[key].expires_at =
                  ret.time + (IF ret.ttl = None THEN default_ttl ELSE The(ret.ttl))
           /\ key \in TimeKeys(l1_access_times)
           /\ L1AccessTime(key) = ret.time

(* C20, as stated: stats["evictions"] grows by one for each entry that     *)
(* eviction removes from l1, moved to l2 or dropped as expired, so it      *)
(* equals the number of entries eviction has removed from l1_cache.        *)
C20_EvictionsCountL1Removals ==
    stats.evictions = evicted.l1

(* C20, amended: stats["evictions"] grows by one for each entry that       *)
(* eviction removes from l1, moved to l2 or dropped as expired, and by one *)
(* for each entry that eviction drops from l2; it equals the number of     *)
(* entries eviction has removed from l1_cache plus the number it has       *)
(* removed from l2_cache.                                                  *)
C20_EvictionsCountRemovals ==
    stats.evictions = evicted.l1 + evicted.l2

\* eviction has removed entries from l1 and from l2
C20_Witness ==
    /\ evicted.l1 > 0
    /\ evicted.l2 > 0
    /\ stats.evictions = evicted.l1 + evicted.l2

\* what the object holds: the two tiers, their access times and the counters
Fields(s) ==
    <<s.l1_cache, s.l1_access_times, s.l2_cache, s.l2_access_times, s.stats>>

\* in each tier the entries and the access times have the same keys
KeySetsAgree ==
    /\ DOMAIN l1_cache = TimeKeys(l1_access_times)
    /\ DOMAIN l2_cache = TimeKeys(l2_access_times)

(* C18: operations are critical sections.  When several callers run get,   *)
(* set and invalidate at once, no tier is ever seen or left with entries   *)
(* and access times of different keys, and the object a call leaves is one *)
(* that the same calls leave when run one after the other in some order.   *)
C18_CriticalSections ==
    /\ []KeySetsAgree
    /\ [][(suspended.get # None /\ suspended'.get = None)
             => <<l1_cache', l1_access_times', l2_cache', l2_access_times',
                  stats'>> \in {Fields(s) : s \in suspended.placed}]_vars

\* the keys an eviction of l1 removed in the last call
L1Removed == {evicted.l1_batch[i].key : i \in 1..Len(evicted.l1_batch)}

(* C21: the eviction of l1 goes by ascending time of last access.  When an *)
(* eviction batch runs on l1, every entry it removes has a time of last    *)
(* access less than or equal to that of every entry it leaves in l1, and   *)
(* it removes floor(l1_size / 4) entries, which the call does not leave in *)
(* l1 unless it stores its own key again.                                  *)
C21_EvictsLeastRecent ==
    (ret.op \in {"get", "set"} /\ evicted.l1_seen # None) =>
        LET seen == Elements(The(evicted.l1_seen))
        IN /\ Len(evicted.l1_batch) = l1_size \div 4
           /\ Cardinality(L1Removed) = Len(evicted.l1_batch)
           /\ L1Removed \subseteq {p[1] : p \in seen}
           /\ \A p \in seen, q \in seen :
                  (p[1] \in L1Removed /\ q[1] \notin L1Removed) => p[2] <= q[2]
           /\ L1Removed \cap DOMAIN l1_cache \subseteq {The(ret.key)}

\* an eviction removed an entry that was not the first one stored in l1: an
\* older entry had been used since
C21_Witness ==
    /\ ret.op = "set"
    /\ evicted.l1_seen # None
    /\ Len(evicted.l1_batch) = 1
    /\ The(evicted.l1_seen)[1][1] \notin L1Removed
    /\ The(evicted.l1_seen)[1][1] \in DOMAIN l1_cache

\* what the eviction of l1 noted, in the last call, of each entry it removed
L1Notes == {evicted.l1_batch[i] : i \in 1..Len(evicted.l1_batch)}

C23_WarmEvictionDiscards ==
    ret.op \in {"get", "set"} =>
        \A note \in L1Notes :
            LET seen == Elements(note.l2_seen)
            IN (note.moved /\ Cardinality({p[1] : p \in seen}) >= l2_size) =>
                   /\ note.l2_removed \subseteq {p[1] : p \in seen}
                   /\ \A p \in seen, q \in seen :
                          (p[1] \in note.l2_removed /\ q[1] \notin note.l2_removed)
                              => p[2] <= q[2]
                   /\ \A key \in note.l2_removed :
                          /\ key \in DOMAIN l2_cache => key = note.key
                          /\ key \in DOMAIN l1_cache =>
                                 \/ key = The(ret.key)
                                 \/ key \in {p[1] : p \in Elements(The(evicted.l1_seen))}
                   /\ note.key \in DOMAIN l2_cache
                   /\ l2_cache[note.key] = note.entry

\* an entry moved into the full l2 made it drop its oldest entry and keep a
\* newer one
C23_Witness ==
    /\ ret.op \in {"get", "set"}
    /\ \E note \in L1Notes :
           /\ note.moved
           /\ note.l2_removed # {}
           /\ note.l2_removed \cap DOMAIN l2_cache = {}
           /\ \E p \in Elements(note.l2_seen), q \in Elements(note.l2_seen) :
                  p[1] \in note.l2_removed /\ p[2] < q[2]
           /\ l2_cache[note.key] = note.entry

\* after this step, key has time t of last access in l1
L1AccessTimeAfter(key, t) ==
    \E i \in 1..Len(l1_access_times') : l1_access_times'[i] = <<key, t>>

\* a get that hits leaves its key the most recently used one of l1, with a
\* time of last access that is a time of that get
HitRefreshes ==
    \A key \in Elements(LruKeys) :
        (GetStep(key) /\ ret'.result # None) =>
            \E t \in ret'.time..now' :
                /\ L1AccessTimeAfter(key, t)
                /\ \A i \in 1..Len(l1_access_times') : l1_access_times'[i][2] <= t

\* this step is set(k(N+1)), right after set(k1), ..., set(kN) and a get(k1)
\* that hit
OverflowAfterHit ==
    /\ filled = l1_size
    /\ ret.seq = l1_size + 1
    /\ ret.op = "get"
    /\ ret.key = Some(LruKeys[1])
    /\ ret.result # None
    /\ CallStep
    /\ ret'.op = "set"
    /\ ret'.key = Some(LruKeys[l1_size + 1])

\* after this step k1 is still in l1 and k2 has been moved to l2
KeepsFirstDemotesSecond ==
    /\ LruKeys[1] \in DOMAIN l1_cache'
    /\ LruKeys[2] \notin DOMAIN l1_cache'
    /\ LruKeys[2] \in DOMAIN l2_cache'

(* C24, as stated: a hit refreshes recency.  After a get(k) that hits, in  *)
(* l1 or in l2 with promotion, the time of last access of k in l1 is the   *)
(* time of that get and is greater than or equal to that of every other    *)
(* key of l1; so, with l1_size N in 4..7, after set of k1..kN, get(k1) and *)
(* set(k(N+1)), k1 is still in l1 and k2 is the key moved to l2.           *)
C24_HitRefreshesRecency ==
    [][HitRefreshes /\ (OverflowAfterHit => KeepsFirstDemotesSecond)]_vars

(* C24, amended: the first part as stated; the second part holds when the  *)
(* clock reading of get(k1) is later than that of set(k2), and k2 has not  *)
(* expired when set(k(N+1)) returns.  (With equal readings the eviction    *)
(* takes k1, the first key in the order of insertion.)                     *)
C24_HitRefreshesRecencyLater ==
    [][/\ HitRefreshes
       /\ (/\ OverflowAfterHit
           /\ ret.time > The(last_set[LruKeys[2]]).expires_at - default_ttl
           /\ now' < The(last_set[LruKeys[2]]).expires_at)
              => KeepsFirstDemotesSecond]_vars

\* l1 of size 7 has kept k1, read at time 1, and moved k2 to l2 for k8
C24_Witness ==
    /\ l1_size = 7
    /\ ret.seq = l1_size + 2
    /\ ret.op = "set"
    /\ stats.l1_hits = 1
    /\ LruKeys[1] \in DOMAIN l1_cache
    /\ L1AccessTime(LruKeys[1]) = 1
    /\ DOMAIN l2_cache = {LruKeys[2]}

\* get(key), reading the clock now, finds an entry of cache that has expired
FindsExpired(cache, key) ==
    key \in DOMAIN cache /\ ret'.time >= cache[key].expires_at

\* get(key), reading the clock now, gets as far as l2 and finds a live entry
FindsWarmLive(key) ==
    /\ key \in DOMAIN l1_cache => FindsExpired(l1_cache, key)
    /\ key \in DOMAIN l2_cache
    /\ ret'.time < l2_cache[key].expires_at

(* C25: lazy expiry cleanup.  A get(k) that finds an expired entry for k in *)
(* l1 removes k from l1_cache and l1_access_times and goes on to look in    *)
(* l2 (so k is in l1 afterwards only as the entry promoted from l2, and the *)
(* answer is that of l2); a get(k) that finds an expired entry in l2        *)
(* removes k from l2_cache and l2_access_times; after a get(k) that returns *)
(* None, k is in neither tier.                                              *)
C25_LazyExpiryCleanup ==
    [][\A key \in Keys :
         GetStep(key) =>
            /\ FindsExpired(l1_cache, key) =>
                  IF FindsWarmLive(key)
                  THEN /\ ret'.result = Some(l2_cache[key].value)
                       /\ l1_cache'[key] = l2_cache[key]
                  ELSE /\ ret'.result = None
                       /\ key \notin DOMAIN l1_cache'
                       /\ key \notin TimeKeys(l1_access_times')
            /\ ((key \in DOMAIN l1_cache => FindsExpired(l1_cache, key))
                    /\ FindsExpired(l2_cache, key)) =>
                  /\ key \notin DOMAIN l2_cache'
                  /\ key \notin TimeKeys(l2_access_times')
            /\ ret'.result = None =>
                  /\ key \notin DOMAIN l1_cache' \cup DOMAIN l2_cache'
                  /\ key \notin TimeKeys(l1_access_times') \cup TimeKeys(l2_access_times')
      ]_vars

\* a get has returned None for a key that was set and then neither evicted
\* nor invalidated: its expired entry has been cleaned up, while other
\* entries are still stored
C25_Witness ==
    /\ ret.op = "get"
    /\ ret.result = None
    /\ last_set[The(ret.key)] # None
    /\ ret.time >= The(last_set[The(ret.key)]).expires_at
    /\ evicted.l1 = 0
    /\ stats.invalidations = 0
    /\ The(ret.key) \notin DOMAIN l1_cache \cup DOMAIN l2_cache
    /\ l1_cache # <<>>

\* what set writes into an entry, apart from the count of accesses
Written(entry) ==
    [value |-> entry.value, expires_at |-> entry.expires_at,
     created_at |-> entry.created_at]

\* value, expires_at and created_at of the entries stored for key
StoredWritten(key) == {Written(entry) : entry \in StoredCopies(key)}

\* what the call set(key, ...) of this step writes into its entry
WrittenBySet(key) ==
    IF CallStep /\ ret'.op = "set" /\ ret'.key = Some(key)
    THEN {[value |-> The(ret'.value),
           expires_at |-> The(last_set'[key]).expires_at,
           created_at |-> ret'.time]}
    ELSE {}

(* C26: entries are immutable apart from recency.  Whatever a step does    *)
(* (a hit in l1, a promotion to l1, a demotion to l2, an eviction, an      *)
(* invalidation), every entry stored for a key afterwards has the value,   *)
(* expires_at and created_at of an entry stored for that key before, in    *)
(* either tier, unless it is the entry a set of that key has just created. *)
C26_EntriesImmutable ==
    [][\A key \in Keys :
          StoredWritten(key)' \subseteq StoredWritten(key) \cup WrittenBySet(key)]_vars

\* an entry written at time 0 has been demoted to l2, promoted by a get at
\* time 1 and then read again in l1, and is as it was written
C26_Witness ==
    /\ ret.op = "get"
    /\ stats.l2_hits = 1
    /\ stats.l1_hits = 1
    /\ evicted.l1 > 0
    /\ The(ret.key) \in DOMAIN l1_cache
    /\ L1AccessTime(The(ret.key)) = 1
    /\ Written(l1_cache[The(ret.key)])
          = [value |-> "v1", expires_at |-> default_ttl, created_at |-> 0]

\* times holds one time of last access for each key of cache, and no other
Mirrors(times, cache) ==
    /\ TimeKeys(times) = DOMAIN cache
    /\ Len(times) = Cardinality(DOMAIN cache)

(* C27: the maps of access times mirror the tiers.  After every completed  *)
(* get, set or invalidate, the calls being made one at a time, the keys of *)
(* l1_access_times are those of l1_cache and the keys of l2_access_times   *)
(* are those of l2_cache.                                                  *)
C27_AccessTimesMirror ==
    ret.op \in {"get", "set", "invalidate"} =>
        /\ Mirrors(l1_access_times, l1_cache)
        /\ Mirrors(l2_access_times, l2_cache)

\* a get has promoted its key into a full l1, which sent another key to
\* l2: both tiers and both maps have changed, and l2 still holds entries
C27_Witness ==
    /\ ret.op = "get"
    /\ stats.l2_hits = 1
    /\ evicted.l1_batch # <<>>
    /\ Len(l1_access_times) = l1_size
    /\ The(ret.key) \notin TimeKeys(l2_access_times)
    /\ Len(l2_access_times) > 1

\* the gets counted by the counters s: each is a hit in l1, a hit in l2 or
\* a miss
CountedGets(s) == s.l1_hits + s.l2_hits + s.l1_misses

\* the total_hit_rate that get_stats would report now is the hits over the
\* counted gets plus the misses
TotalRateCountsMissesTwice ==
    IsRate(get_stats(Self(MaxCalm)).total_hit_rate,
           stats.l1_hits + stats.l2_hits,
           CountedGets(stats) + stats.l1_misses)

(* C28: the two miss counters are always equal, stats["l1_misses"] ==      *)
(* stats["l2_misses"], and the number of completed calls of get is         *)
(* l1_hits + l2_hits + l1_misses: the sum is 0 before the first call, a    *)
(* completed get adds one to it and no other step changes it.  So the      *)
(* total_hit_rate that get_stats would report has the gets plus the misses *)
(* as its denominator.                                                     *)
C28_MissCountersEqual ==
    [][/\ stats.l1_misses = stats.l2_misses
       /\ stats'.l1_misses = stats'.l2_misses
       /\ ret.seq = 0 => CountedGets(stats) = 0
       /\ CountedGets(stats') =
             CountedGets(stats) + (IF CallStep /\ ret'.op = "get" THEN 1 ELSE 0)
       /\ TotalRateCountsMissesTwice
       /\ TotalRateCountsMissesTwice']_vars

\* two gets after the fill: one answered from l2, one a miss
C28_Witness ==
    /\ ret.seq = filled + 2
    /\ ret.op = "get"
    /\ CountedGets(stats) = 2
    /\ stats.l2_hits = 1
    /\ stats.l2_misses = 1

(* C29: a get answered from l1 reads only, apart from recency.  A get(k)   *)
(* that finds an unexpired entry for k in l1 leaves l1_cache and l2_cache, *)
(* keys and entries, as they were, and so l2_access_times, the times of    *)
(* last access of the other keys of l1 and the counters of misses,         *)
(* evictions and invalidations; it sets the time of last access of k in l1 *)
(* and adds one to l1_hits.                                                *)
C29_HotHitReadsOnly ==
    [][\A key \in Keys :
          (GetStep(key) /\ key \in DOMAIN l1_cache
                        /\ ret'.time < l1_cache[key].expires_at)
              => /\ l1_cache' = l1_cache
                 /\ l2_cache' = l2_cache
                 /\ l2_access_times' = l2_access_times
                 /\ TimesPop(l1_access_times', key) = TimesPop(l1_access_times, key)
                 /\ L1AccessTimeAfter(key, ret'.time)
                 /\ stats' = [stats EXCEPT !.l1_hits = @ + 1]
                 /\ ret'.result = Some(l1_cache[key].value)]_vars

\* a get at time 1 was answered from l1, whose other keys keep times of
\* last access of 0, while l2 holds entries too
C29_Witness ==
    /\ ret.op = "get"
    /\ ret.time = 1
    /\ stats.l1_hits = 1
    /\ ret.seq = filled + 1
    /\ l2_cache # <<>>
    /\ L1AccessTime(The(ret.key)) = 1
    /\ \E i \in 1..Len(l1_access_times) : l1_access_times[i][2] = 0

\* this step is set(key, ...) on a full l1 of capacity 4 or more that holds
\* key already
OverwriteAtCapacity(key) ==
    /\ CallStep
    /\ ret'.op = "set"
    /\ ret'.key = Some(key)
    /\ key \in DOMAIN l1_cache
    /\ Cardinality(DOMAIN l1_cache) >= l1_size
    /\ l1_size >= 4

\* the keys the eviction of this step took out of l1
L1RemovedAfter == {evicted'.l1_batch[i].key : i \in 1..Len(evicted'.l1_batch)}

(* C30: overwriting at capacity still evicts.  A set(k, ...) made while k  *)
(* is in l1 and l1 holds l1_size entries or more (l1_size >= 4) evicts     *)
(* l1_size \div 4 least recently used entries of l1 before it writes k,    *)
(* although writing k would not make l1 grow: the keys taken out, k apart, *)
(* are no longer in l1, and k may be among them, in which case the entry   *)
(* it had goes through the eviction and k is put into l1 again.            *)
C30_OverwriteStillEvicts ==
    [][\A key \in Keys \cup Elements(LruKeys) :
          OverwriteAtCapacity(key) =>
             /\ evicted'.l1_seen = Some(l1_access_times)
             /\ Len(evicted'.l1_batch) = l1_size \div 4
             /\ Cardinality(L1RemovedAfter) = l1_size \div 4
             /\ \A p \in Elements(l1_access_times), q \in Elements(l1_access_times) :
                   (p[1] \in L1RemovedAfter /\ q[1] \notin L1RemovedAfter)
                       => p[2] <= q[2]
             /\ \A i \in 1..Len(evicted'.l1_batch) :
                   /\ evicted'.l1_batch[i].entry = l1_cache[evicted'.l1_batch[i].key]
                   /\ evicted'.l1_batch[i].moved
                         => evicted'.l1_batch[i].entry
                               = l2_cache'[evicted'.l1_batch[i].key]
             /\ DOMAIN l1_cache' = ((DOMAIN l1_cache) \ L1RemovedAfter) \cup {key}
             /\ Written(l1_cache'[key]) \in WrittenBySet(key)]_vars

\* set(k, "v2") on a full l1 has moved the entry k had, with value "v1", to
\* l2 and then written the new entry of k into l1
C30_Witness ==
    /\ ret.op = "set"
    /\ ret.value = Some("v2")
    /\ Len(evicted.l1_batch) = 1
    /\ evicted.l1_batch[1].key = The(ret.key)
    /\ evicted.l1_batch[1].moved
    /\ l1_cache[The(ret.key)].value = "v2"
    /\ l2_cache[The(ret.key)].value = "v1"
    /\ Cardinality(DOMAIN l1_cache) = l1_size

====
